---- MODULE Spec2Model ----
(***************************************************************************)
(* Namma Metro route finder (src/metro.c): name normalisation, the station *)
(* registry, the adjacency graph, breadth-first search with blocked edges  *)
(* and the alternate-route loop.                                           *)
(*                                                                         *)
(* A C string is a sequence of one-character strings; NUL is the end of    *)
(* the sequence.  Station identities are the C indices 0 .. stationCount-1;*)
(* the station with identity i is stations[i + 1].                         *)
(*                                                                         *)
(* A value the code computes once and reads several times is handed on as  *)
(* an operator argument (or bound by \E over a one-element set) rather     *)
(* than named in a LET, because TLC evaluates a LET definition anew at     *)
(* every use.                                                              *)
(***************************************************************************)
EXTENDS Integers, Sequences, FiniteSets, TLC

VARIABLES
    stations,       \* Station stations[MAX]: the entries written so far (the rest is zero)
    stationCount,   \* int stationCount
    adj,            \* int adj[MAX][MAX]: the set of <<a, b>> with adj[a][b] = 1
    linesAdded,     \* number of add_line_with_plan calls since the last reset
    list,           \* add_line_with_plan: argument list[] of the last call
    ids,            \* add_line_with_plan: local ids[] of the last call
    include_planned,\* main: int include_planned
    src,            \* route query: resolved source identity (-1 = not found)
    dest,           \* route query: resolved destination identity (-1 = not found)
    blocked_a,      \* bfs_with_blocked_edges: argument blocked_a[]
    blocked_b,      \* bfs_with_blocked_edges: argument blocked_b[]
    status,         \* outcome of the last query
    path,           \* route query: local path[0 .. len-1]
    alternates,     \* route query: alternates[0 .. altc-1], each with the blocked edge index
    edgeLines,      \* route query: local edgeLines[0 .. len-2]
    last_path,      \* main: last_path[0 .. last_len-1] (last_len = 0: no route stored)
    lineDefs,       \* build_network: the line names with their station arrays
    nm_raw,         \* name key: the string handed to normalize_inplace first
    nm_s,           \* name key: the buffer s normalize_inplace works on
    nm_prev,        \* name key: the buffer before the last normalize_inplace call
    nm_calls        \* name key: number of normalize_inplace calls on the buffer

netVars   == <<stations, stationCount, adj, include_planned>>
lineVars  == <<linesAdded, list, ids>>
queryVars == <<src, dest, blocked_a, blocked_b, status, path, alternates, edgeLines>>
nameVars  == <<nm_raw, nm_s, nm_prev, nm_calls>>
mainVars  == <<last_path, lineDefs>>
vars      == <<netVars, lineVars, queryVars, nameVars, mainVars>>

(***************************************************************************)
(* Program constants                                                       *)
(***************************************************************************)
MAX == 400
MAX_ALTERNATES == 3
NAME_MAX == 79
LINE_MAX == 29
LINE_SLOTS == 6     \* char lines[6][30]

(***************************************************************************)
(* Bounds of the model                                                     *)
(***************************************************************************)
MaxNameLen == 5      \* longest string handed to normalize_inplace
MaxCalls == 2        \* normalize_inplace calls on one buffer
MaxLineLen == 2      \* stations in one line definition
MaxLines == 2        \* line definitions in one build
MaxStations == 5     \* stations of a network a route is searched in
MaxEdges == 6        \* edges of such a network
MaxBfsStations == 3  \* stations of a network searched with blocked edges
MaxBlocked == 1      \* blocked edges handed to one search
MaxNetLen == 2       \* stations in one line array of build_network
MaxFree == 2         \* free entries of stations[] before a build that fills it

\* A planned_flags argument: the NULL pointer or an array of 0/1.
NULL == [isNull |-> TRUE, v |-> <<>>]
Flags(f) == [isNull |-> FALSE, v |-> f]

Min(a, b) == IF a < b THEN a ELSE b

(***************************************************************************)
(* <ctype.h> in the "C" locale                                             *)
(***************************************************************************)
LowerLetters == <<"a","b","c","d","e","f","g","h","i","j","k","l","m",
                  "n","o","p","q","r","s","t","u","v","w","x","y","z">>
UpperLetters == <<"A","B","C","D","E","F","G","H","I","J","K","L","M",
                  "N","O","P","Q","R","S","T","U","V","W","X","Y","Z">>
Digits == {"0","1","2","3","4","5","6","7","8","9"}

LowerSet == {LowerLetters[i] : i \in 1..26}
UpperSet == {UpperLetters[i] : i \in 1..26}
SpaceSet == {" ", "\t", "\n", "\r"}
LowerOf == [c \in UpperSet |-> LowerLetters[CHOOSE i \in 1..26 : UpperLetters[i] = c]]

isalpha(c) == c \in LowerSet \/ c \in UpperSet
isalnum(c) == isalpha(c) \/ c \in Digits
isspace(c) == c \in SpaceSet

tolower(c) == IF c \in UpperSet THEN LowerOf[c] ELSE c

\* s[i] of a C string, i counted from 0; "" stands for the terminating NUL
\* (and is what the code reads at i = strlen(s)).
CharAt(s, i) == IF i + 1 <= Len(s) THEN s[i + 1] ELSE ""

\* strncpy(dst, src, n); dst[n] = '\0'
strncpy(s, n) == SubSeq(s, 1, Min(Len(s), n))

lowercase(s) == [i \in 1..Len(s) |-> tolower(s[i])]

(***************************************************************************)
(* normalize_inplace                                                       *)
(***************************************************************************)
\* Variant of step 1 that keeps every character.
norm_filter_keeps_all(s) == s

\* Step 1: keep alnum and whitespace.
norm_filter(s) == SelectSeq(s, LAMBDA c : isalnum(c) \/ isspace(c))

\* Step 2, "skip leading spaces": the index of the first non-space.
RECURSIVE norm_skip(_, _)
norm_skip(tmp, i) ==
    IF CharAt(tmp, i) # "" /\ isspace(CharAt(tmp, i))
    THEN norm_skip(tmp, i + 1)
    ELSE i

\* Step 2, the collapsing loop.
RECURSIVE norm_collapse_loop(_, _, _, _)
norm_collapse_loop(tmp, i, last_space, tmp2) ==
    IF CharAt(tmp, i) = "" THEN tmp2
    ELSE IF isspace(CharAt(tmp, i))
         THEN IF last_space = 0
              THEN norm_collapse_loop(tmp, i + 1, 1, Append(tmp2, " "))
              ELSE norm_collapse_loop(tmp, i + 1, last_space, tmp2)
         ELSE norm_collapse_loop(tmp, i + 1, 0, Append(tmp2, CharAt(tmp, i)))

\* "remove trailing space if any": if (k > 0 && tmp2[k - 1] == ' ') k--
norm_drop_trailing(tmp2) ==
    IF Len(tmp2) > 0 /\ tmp2[Len(tmp2)] = " "
    THEN SubSeq(tmp2, 1, Len(tmp2) - 1)
    ELSE tmp2

\* Step 2.
norm_collapse(tmp) ==
    norm_drop_trailing(norm_collapse_loop(tmp, norm_skip(tmp, 0), 0, <<>>))

\* Step 3: the test of the while loop's if.
norm_fuse_here(tmp2, i) ==
    /\ isalpha(CharAt(tmp2, i))
    /\ CharAt(tmp2, i + 1) = " "
    /\ isalpha(CharAt(tmp2, i + 2))

\* Step 3: the while loop.
RECURSIVE norm_fuse(_, _, _)
norm_fuse(tmp2, i, tmp3) ==
    IF CharAt(tmp2, i) = "" THEN tmp3
    ELSE IF norm_fuse_here(tmp2, i)
         THEN norm_fuse(tmp2, i + 3,
                        Append(Append(tmp3, CharAt(tmp2, i)), CharAt(tmp2, i + 2)))
         ELSE norm_fuse(tmp2, i + 1, Append(tmp3, CharAt(tmp2, i)))

normalize_inplace(s) ==
    LET tmp  == norm_filter(s)
        tmp2 == norm_collapse(tmp)
        tmp3 == norm_fuse(tmp2, 0, <<>>)
    IN  strncpy(lowercase(tmp3), NAME_MAX)

(***************************************************************************)
(* Station registry and graph                                              *)
(***************************************************************************)
\* The network as the functions below pass it along: the three globals.
Net(st, sc, a) == [stations |-> st, stationCount |-> sc, adj |-> a]

\* Station i (a C index) of a station table.
StationAt(st, i) == st[i + 1]

\* The least element of a non-empty set of integers.
Least(S) == CHOOSE j \in S : \A k \in S : j <= k

\* What a for loop that returns at its first hit returns: the least index of
\* hits, or -1.  (The loop is not unfolded by recursion: it runs up to MAX
\* times, deeper than TLC's evaluation stack.)
first_hit(hits) == IF hits = {} THEN -1 ELSE Least(hits)

\* Variant of find_by_key that compares against display_name.
find_by_key_display(st, sc, key, i) ==
    first_hit({j \in i..(sc - 1) : StationAt(st, j).display_name = key})

\* find_or_add_by_key_with_plan, "check if station exists": the first index
\* from i on below stationCount whose key_name equals key, or -1.
find_by_key(st, sc, key, i) ==
    first_hit({j \in i..(sc - 1) : StationAt(st, j).key_name = key})

\* "trim spaces in display name": s, the first non-space index of tmp.
RECURSIVE trim_start(_, _)
trim_start(tmp, s) ==
    IF CharAt(tmp, s) # "" /\ isspace(CharAt(tmp, s))
    THEN trim_start(tmp, s + 1)
    ELSE s

\* e, the last non-space index of tmp (-1 if there is none).
RECURSIVE trim_end(_, _)
trim_end(tmp, e) ==
    IF e >= 0 /\ isspace(CharAt(tmp, e))
    THEN trim_end(tmp, e - 1)
    ELSE e

\* if (s <= e) copy tmp[s .. e] (at most 79 characters) else the empty string
trim_copy(tmp, s, e) ==
    IF s <= e
    THEN SubSeq(tmp, s + 1, s + Min(e - s + 1, NAME_MAX))
    ELSE <<>>

trim_bounds(tmp) == trim_copy(tmp, trim_start(tmp, 0), trim_end(tmp, Len(tmp) - 1))

trim_display(display) == trim_bounds(strncpy(display, NAME_MAX))

\* The table with stations[i] = v written (i is at most the live length).
StoreStation(st, i, v) ==
    IF i + 1 <= Len(st) THEN [st EXCEPT ![i + 1] = v] ELSE Append(st, v)

\* The station the "create new" branch stores at stations[stationCount].
new_station(key, display, planned) ==
    [ key_name     |-> strncpy(key, NAME_MAX),
      display_name |-> trim_display(display),
      lines        |-> <<>>,
      planned      |-> planned ]

\* Variant of find_or_add_by_key_with_plan in which the last registration
\* wins: an existing station's display_name and planned flag are rewritten.
find_or_add_last_wins_at(net, key, display, planned, found) ==
    IF found # -1
    THEN [net |-> Net([net.stations EXCEPT
                          ![found + 1].display_name = trim_display(display),
                          ![found + 1].planned = planned],
                      net.stationCount, net.adj),
          id  |-> found]
    ELSE [net |-> Net(StoreStation(net.stations, net.stationCount,
                                   new_station(key, display, planned)),
                      net.stationCount + 1,
                      net.adj),
          id  |-> net.stationCount]

find_or_add_last_wins(net, key, display, planned) ==
    find_or_add_last_wins_at(net, key, display, planned,
                             find_by_key(net.stations, net.stationCount, key, 0))

\* find_or_add_by_key_with_plan after its search loop gave found: return the
\* index found, or "create new".
find_or_add_at(net, key, display, planned, found) ==
    IF found # -1
    THEN [net |-> net, id |-> found]
    ELSE [net |-> Net(StoreStation(net.stations, net.stationCount,
                                   new_station(key, display, planned)),
                      net.stationCount + 1,
                      net.adj),
          id  |-> net.stationCount]

\* Returns the network after the call and the returned id.
find_or_add_by_key_with_plan(net, key, display, planned) ==
    find_or_add_at(net, key, display, planned,
                   find_by_key(net.stations, net.stationCount, key, 0))

\* add_line_tag: lines[0 .. line_count-1] is the sequence lines.
add_line_tag(st, id, line) ==
    IF \E i \in 1..Len(StationAt(st, id).lines) : StationAt(st, id).lines[i] = line
    THEN st
    ELSE [st EXCEPT ![id + 1].lines = Append(@, strncpy(line, LINE_MAX))]

\* Variant of connect_ids without the a == b test.
connect_ids_loops(a_, a, b) ==
    IF a < 0 \/ b < 0 THEN a_
    ELSE a_ \cup {<<a, b>>, <<b, a>>}

connect_ids(a_, a, b) ==
    IF a < 0 \/ b < 0 \/ a = b THEN a_
    ELSE a_ \cup {<<a, b>>, <<b, a>>}

\* planned_flags ? planned_flags[i] : 0
planned_of(pf, i) == IF pf.isNull THEN 0 ELSE pf.v[i]

\* add_line_with_plan, first loop, one name: display and key are copies of
\* the name, the key normalized.
add_line_find(net, name, planned) ==
    find_or_add_by_key_with_plan(net, normalize_inplace(strncpy(name, NAME_MAX)),
                                 strncpy(name, NAME_MAX), planned)

\* add_line_tag(ids[i], lineName) on the result r of the registration
add_line_tagged(r, line) ==
    [net |-> Net(add_line_tag(r.net.stations, r.id, line),
                 r.net.stationCount, r.net.adj),
     id  |-> r.id]

\* add_line_with_plan, first loop from position i (1-based) on.
RECURSIVE add_line_register(_, _, _, _, _, _)
RECURSIVE add_line_registered(_, _, _, _, _, _)
add_line_registered(r, line, lst, pf, i, idsSoFar) ==
    add_line_register(r.net, line, lst, pf, i + 1, Append(idsSoFar, r.id))

add_line_register(net, line, lst, pf, i, idsSoFar) ==
    IF i > Len(lst) THEN [net |-> net, ids |-> idsSoFar]
    ELSE add_line_registered(
             add_line_tagged(add_line_find(net, lst[i], planned_of(pf, i)), line),
             line, lst, pf, i, idsSoFar)

\* add_line_with_plan, second loop: connect consecutive stations.
RECURSIVE add_line_connect(_, _, _)
add_line_connect(a_, idz, i) ==
    IF i > Len(idz) - 1 THEN a_
    ELSE add_line_connect(connect_ids(a_, idz[i], idz[i + 1]), idz, i + 1)

\* The second loop on the result r of the first.
add_line_chained(r) ==
    [net |-> Net(r.net.stations, r.net.stationCount,
                 add_line_connect(r.net.adj, r.ids, 1)),
     ids |-> r.ids]

add_line_with_plan(net, line, lst, pf) ==
    add_line_chained(add_line_register(net, line, lst, pf, 1, <<>>))

\* connected(a, b)
connected(a, b) == <<a, b>> \in adj

\* Variant of build_reset that clears the adjacency matrix only.
build_reset_keeps_count(net) == Net(net.stations, net.stationCount, {})

\* build_network, its head: stationCount = 0 and the adjacency matrix
\* cleared.  The entries of stations[] stay as they are.
build_reset(net) == Net(net.stations, 0, {})

\* build_network, "add lines to graph": the add_line_with_plan calls from
\* definition i (1-based) on.  A definition is a line name with its array of
\* station names and its array of planned flags.
RECURSIVE build_lines(_, _, _)
build_lines(net, defs, i) ==
    IF i > Len(defs) THEN net
    ELSE build_lines(add_line_with_plan(net, defs[i].name, defs[i].list,
                                        Flags(defs[i].planned)).net,
                     defs, i + 1)

build_network(net, defs) == build_lines(build_reset(net), defs, 1)

\* The globals at program start: zero-initialised.
ZeroNet == Net(<<>>, 0, {})

(***************************************************************************)
(* Breadth-first search                                                    *)
(***************************************************************************)
\* Variant of edge_blocked that tests one orientation only.
edge_blocked_one_way(u, v, ba, bb) ==
    \E b \in 1..Len(ba) : u = ba[b] /\ v = bb[b]

\* "check if this edge is blocked": blocked_count is the arrays' length
\* (bfs_simple passes NULL, NULL, 0: the empty arrays).
edge_blocked(u, v, ba, bb) ==
    \E b \in 1..Len(ba) :
        \/ (u = ba[b] /\ v = bb[b])
        \/ (u = bb[b] /\ v = ba[b])

\* Variant of bfs_scan whose for loop runs from the highest identity down:
\* step v looks at station stationCount-1-v.
RECURSIVE bfs_scan_down(_, _, _, _, _, _)
bfs_scan_down(net, ba, bb, u, v, st) ==
    IF v >= net.stationCount THEN st
    ELSE IF <<u, net.stationCount - 1 - v>> \notin net.adj
         THEN bfs_scan_down(net, ba, bb, u, v + 1, st)
    ELSE IF (net.stationCount - 1 - v) \in st.visited
         THEN bfs_scan_down(net, ba, bb, u, v + 1, st)
    ELSE IF edge_blocked(u, net.stationCount - 1 - v, ba, bb)
         THEN bfs_scan_down(net, ba, bb, u, v + 1, st)
    ELSE bfs_scan_down(net, ba, bb, u, v + 1,
                       [st EXCEPT !.visited = @ \cup {net.stationCount - 1 - v},
                                  !.parent  = [@ EXCEPT ![net.stationCount - 1 - v] = u],
                                  !.q       = Append(@, net.stationCount - 1 - v)])

\* The search state: the queue q[0 .. rear-1] (rear = Len(q)), front,
\* visited[] as the set of visited ids, parent[].
\* The for loop over v = 0 .. stationCount-1 for the dequeued station u.
RECURSIVE bfs_scan(_, _, _, _, _, _)
bfs_scan(net, ba, bb, u, v, st) ==
    IF v >= net.stationCount THEN st
    ELSE IF <<u, v>> \notin net.adj THEN bfs_scan(net, ba, bb, u, v + 1, st)
    ELSE IF v \in st.visited THEN bfs_scan(net, ba, bb, u, v + 1, st)
    ELSE IF edge_blocked(u, v, ba, bb) THEN bfs_scan(net, ba, bb, u, v + 1, st)
    ELSE bfs_scan(net, ba, bb, u, v + 1,
                  [st EXCEPT !.visited = @ \cup {v},
                             !.parent  = [@ EXCEPT ![v] = u],
                             !.q       = Append(@, v)])

\* Variant of bfs_dequeue that takes the newest entry (u = q[--rear]).
bfs_dequeue_lifo(st) ==
    [u |-> st.q[Len(st.q)], st |-> [st EXCEPT !.q = SubSeq(@, 1, Len(@) - 1)]]

\* int u = q[front++]
bfs_dequeue(st) == [u |-> st.q[st.front + 1], st |-> [st EXCEPT !.front = @ + 1]]

\* The while loop; bfs_visit is its body for the dequeued station r.u.
RECURSIVE bfs_loop(_, _, _, _, _)
RECURSIVE bfs_visit(_, _, _, _, _)
bfs_visit(net, d, ba, bb, r) ==
    IF r.u = d THEN [found |-> 1, parent |-> r.st.parent, q |-> r.st.q]
    ELSE bfs_loop(net, d, ba, bb, bfs_scan(net, ba, bb, r.u, 0, r.st))

bfs_loop(net, d, ba, bb, st) ==
    IF ~(st.front < Len(st.q)) THEN [found |-> 0, parent |-> st.parent, q |-> st.q]
    ELSE bfs_visit(net, d, ba, bb, bfs_dequeue(st))

\* Variant of bfs_with_blocked_edges that puts src in the queue twice.
bfs_src_twice(net, s, d, parent, ba, bb) ==
    bfs_loop(net, d, ba, bb,
             [q |-> <<s, s>>, front |-> 0, visited |-> {s},
              parent |-> [parent EXCEPT ![s] = -1]])

\* Returns the return value, parent[] and the queue q[0 .. rear-1] after the
\* call.
bfs_with_blocked_edges(net, s, d, parent, ba, bb) ==
    bfs_loop(net, d, ba, bb,
             [q |-> <<s>>, front |-> 0, visited |-> {s},
              parent |-> [parent EXCEPT ![s] = -1]])

bfs_simple(net, s, d, parent) == bfs_with_blocked_edges(net, s, d, parent, <<>>, <<>>)

\* for (i = 0; i < MAX; i++) parent[i] = -1, over the ids in use
parent_init(net) == [i \in 0..(net.stationCount - 1) |-> -1]

\* "reconstruct path": while (cur != -1) { path[len++] = cur; cur = parent[cur]; }
\* path[] has MAX entries.
RECURSIVE follow_parents(_, _, _)
follow_parents(parent, cur, p) ==
    IF cur = -1 \/ Len(p) >= MAX THEN p
    ELSE follow_parents(parent, parent[cur], Append(p, cur))

\* Variant of reverse_path that leaves the path in dest-to-src order.
reverse_path_skipped(p) == p

\* "reverse": swap path[i] and path[len-1-i] for i < len/2
reverse_path(p) == [i \in 1..Len(p) |-> p[Len(p) + 1 - i]]

reconstruct_path(parent, d) == reverse_path(follow_parents(parent, d, <<>>))

\* Variant of route_equals with the length test inverted.
route_equals_inverted(a, b) ==
    IF Len(a) = Len(b) THEN FALSE
    ELSE \A i \in 1..Min(Len(a), Len(b)) : a[i] = b[i]

route_equals(a, b) ==
    IF Len(a) # Len(b) THEN FALSE
    ELSE \A i \in 1..Len(a) : a[i] = b[i]

\* find_alternates, "check duplicates": dup for the candidate p.
alt_dup(p, primary, alts) ==
    \/ route_equals(p, primary)
    \/ \E a \in 1..Len(alts) : route_equals(p, alts[a].path)

\* The alternates after the search with edge e blocked returned r: on
\* success the path is reconstructed and stored unless it is a duplicate.
\* An accepted alternate is kept with the index of the edge blocked for it.
alt_store(alts, p, e, primary) ==
    IF alt_dup(p, primary, alts) THEN alts
    ELSE Append(alts, [path |-> p, edge |-> e])

alt_after(alts, r, e, primary) ==
    IF r.found = 1
    THEN alt_store(alts, reconstruct_path(r.parent, primary[Len(primary)]), e, primary)
    ELSE alts

\* Variant of alt_search that leaves the first edge of the primary path
\* blocked in every iteration.
alt_search_keeps_first(net, primary, e) ==
    bfs_with_blocked_edges(net, primary[1], primary[Len(primary)],
                           parent_init(net), <<primary[e + 1], primary[1]>>,
                                             <<primary[e + 2], primary[2]>>)

\* The search of one iteration: edge e (0-based) of the primary path blocked.
alt_search(net, primary, e) ==
    bfs_with_blocked_edges(net, primary[1], primary[Len(primary)],
                           parent_init(net), <<primary[e + 1]>>, <<primary[e + 2]>>)

\* Variant of find_alternates whose loop runs from the last edge of the
\* primary path down to the first.
RECURSIVE find_alternates_loop_down(_, _, _, _)
find_alternates_loop_down(net, primary, e, alts) ==
    IF ~(e >= 0 /\ Len(alts) < MAX_ALTERNATES) THEN alts
    ELSE find_alternates_loop_down(net, primary, e - 1,
             alt_after(alts, alt_search(net, primary, e), e, primary))

find_alternates_backwards(net, primary) ==
    find_alternates_loop_down(net, primary, Len(primary) - 2, <<>>)

\* find_alternates: the for loop from edge e on.
RECURSIVE find_alternates_loop(_, _, _, _)
find_alternates_loop(net, primary, e, alts) ==
    IF ~(e < Len(primary) - 1 /\ Len(alts) < MAX_ALTERNATES) THEN alts
    ELSE find_alternates_loop(net, primary, e + 1,
             alt_after(alts, alt_search(net, primary, e), e, primary))

find_alternates(net, primary) == find_alternates_loop(net, primary, 0, <<>>)

\* strcpy(edgeLines[i], "unknown")
unknown == <<"u", "n", "k", "n", "o", "w", "n">>

\* Variant of edge_line_scan that goes on after a hit and keeps the last
\* common line it meets.
edge_line_scan_last(la, lb, ai, bi) ==
    IF \A k \in (ai + 1)..Len(la) : \A m \in 1..Len(lb) : la[k] # lb[m] THEN unknown
    ELSE strncpy(la[CHOOSE k \in (ai + 1)..Len(la) :
                       /\ \E m \in 1..Len(lb) : la[k] = lb[m]
                       /\ \A j \in (k + 1)..Len(la) : \A m \in 1..Len(lb) : la[j] # lb[m]],
                 LINE_MAX)

\* build_edge_lines, the two nested loops for one edge: la and lb are the
\* line lists of a and b, scanned from (ai, bi) (0-based) while !found.
RECURSIVE edge_line_scan(_, _, _, _)
edge_line_scan(la, lb, ai, bi) ==
    IF ai >= Len(la) THEN unknown
    ELSE IF bi >= Len(lb) THEN edge_line_scan(la, lb, ai + 1, 0)
    ELSE IF la[ai + 1] = lb[bi + 1] THEN strncpy(la[ai + 1], LINE_MAX)
    ELSE edge_line_scan(la, lb, ai, bi + 1)

\* edgeLines[0 .. len-2] for path[0 .. len-1]
build_edge_lines(st, p) ==
    [i \in 1..(Len(p) - 1) |->
        edge_line_scan(StationAt(st, p[i]).lines, StationAt(st, p[i + 1]).lines, 0, 0)]

\* main, choice 1: the lookup loop; the last matching index wins.
RECURSIVE lookup_key(_, _, _, _, _)
lookup_key(net, ip, key, i, hit) ==
    IF i >= net.stationCount THEN hit
    ELSE IF ip = 0 /\ StationAt(net.stations, i).planned # 0
         THEN lookup_key(net, ip, key, i + 1, hit)
    ELSE IF StationAt(net.stations, i).key_name = key
         THEN lookup_key(net, ip, key, i + 1, i)
    ELSE lookup_key(net, ip, key, i + 1, hit)

(***************************************************************************)
(* Inputs of the build                                                     *)
(***************************************************************************)
\* Station references of the line definitions, each a raw name with its
\* planned flag: two spellings of one key and a name to be trimmed.
LineEntries == { [name |-> <<"a", "b">>,      planned |-> 0],
                 [name |-> <<"A", " ", "B">>, planned |-> 1],
                 [name |-> <<" ", "c">>,      planned |-> 0] }
LineNames == { <<"p">>, <<"g">> }

SeqsUpTo(S, n) == UNION { [1..k -> S] : k \in 0..n }

NamesOf(entries) == [i \in 1..Len(entries) |-> entries[i].name]
FlagsOf(entries) == Flags([i \in 1..Len(entries) |-> entries[i].planned])

NoQuery ==
    /\ src = -1 /\ dest = -1
    /\ blocked_a = <<>> /\ blocked_b = <<>>
    /\ status = "none" /\ path = <<>> /\ alternates = <<>> /\ edgeLines = <<>>

\* The locals of a route query do not outlive it.
ClearQuery ==
    /\ src' = -1 /\ dest' = -1
    /\ blocked_a' = <<>> /\ blocked_b' = <<>>
    /\ status' = "none" /\ path' = <<>> /\ alternates' = <<>> /\ edgeLines' = <<>>

\* main before its loop: last_len = 0.  NoData: a network that was not built
\* by build_network from line arrays.
NoLastRoute == last_path = <<>>
NoData == lineDefs = <<>>

NoName == nm_raw = <<>> /\ nm_s = <<>> /\ nm_prev = <<>> /\ nm_calls = 0

NoLine == linesAdded = 0 /\ list = <<>> /\ ids = <<>>

ClearLine == linesAdded' = 0 /\ list' = <<>> /\ ids' = <<>>

(***************************************************************************)
(* Building the network                                                    *)
(***************************************************************************)
\* The state at program start: zero-initialised globals, include_planned = 1.
Init ==
    /\ stations = <<>> /\ stationCount = 0 /\ adj = {}
    /\ include_planned = 1
    /\ NoLine /\ NoQuery /\ NoName /\ NoLastRoute /\ NoData

\* build_network up to its first add_line_with_plan call.
BuildReset ==
    /\ \E net \in {build_reset(Net(stations, stationCount, adj))} :
          /\ stations' = net.stations
          /\ stationCount' = net.stationCount
          /\ adj' = net.adj
    /\ ClearLine /\ ClearQuery
    /\ UNCHANGED <<include_planned, nameVars, mainVars>>

\* find_or_add_by_key_with_plan stores at stations[stationCount] without
\* comparing stationCount with MAX.  A store at index MAX or above lies
\* outside the array (the table then has more than MAX entries): what it
\* overwrites is not defined, and stationCount, which may lie behind the
\* array, holds the incremented count or bytes of the entry stored.  Nothing
\* is said about the program after such a store, or after a tag stored
\* outside lines[].
after_store(net) ==
    IF Len(net.stations) <= MAX THEN {net.stationCount}
    ELSE {net.stationCount, 0, 1}

\* add_line_tag stores at lines[line_count] without comparing line_count
\* with the 6 entries of lines[]: a seventh tag lies on the planned field
\* and on the station entry that follows, and what is read back from it is
\* the line name or other bytes (whatever was written there since).
clobbered == <<"#">>

after_tag(st) ==
    IF \A i \in 1..Len(st) : Len(st[i].lines) <= LINE_SLOTS THEN {st}
    ELSE {st, [i \in 1..Len(st) |->
                 [st[i] EXCEPT !.lines =
                     [k \in 1..Len(st[i].lines) |->
                         IF k > LINE_SLOTS THEN clobbered ELSE st[i].lines[k]]]]}

\* One add_line_with_plan call of a build.  The line definitions are data of
\* build_network; the model draws them from bounded sets: the line name from
\* names, the stations with their flags from entrySeqs.
AddLineOf(names, entrySeqs) ==
    /\ linesAdded < MaxLines
    /\ Len(stations) <= MAX
    /\ after_tag(stations) = {stations}
    /\ \E line \in names, entries \in entrySeqs, useFlags \in BOOLEAN :
            \E r \in {add_line_with_plan(Net(stations, stationCount, adj), line,
                                          NamesOf(entries),
                                          IF useFlags THEN FlagsOf(entries) ELSE NULL)} :
                /\ stations' \in after_tag(r.net.stations)
                /\ stationCount' \in after_store(r.net)
                /\ adj' = r.net.adj
                /\ linesAdded' = linesAdded + 1
                /\ list' = NamesOf(entries)
                /\ ids' = r.ids
    /\ ClearQuery
    /\ UNCHANGED <<include_planned, nameVars, mainVars>>

LineLists == SeqsUpTo(LineEntries, MaxLineLen)

AddLine == AddLineOf(LineNames, LineLists)

Next == BuildReset \/ AddLine

Spec == Init /\ [][Next]_vars

(***************************************************************************)
(* Route queries on a built network                                        *)
(***************************************************************************)
\* A built network of n stations: station i was registered under the
\* one-letter name LowerLetters[i + 1] by a line "p", and the lines of the
\* build chained the pairs of edges.  Every loop-free undirected graph over
\* the stations is the result of such a build (one two-station line per
\* edge, one one-station line per isolated station).
BuiltStation(i) ==
    [ key_name     |-> <<LowerLetters[i + 1]>>,
      display_name |-> <<LowerLetters[i + 1]>>,
      lines        |-> << <<"p">> >>,
      planned      |-> 0 ]

BuiltStations(n) == [i \in 1..n |-> BuiltStation(i - 1)]

UndirectedEdges(n) == {e \in (0..(n - 1)) \X (0..(n - 1)) : e[1] < e[2]}

\* adj[][] after connect_ids on every pair of edges
AdjOf(edges) == edges \cup {<<e[2], e[1]>> : e \in edges}

QueryNames(n) == {<<LowerLetters[i]>> : i \in 1..n} \cup {<<"z">>}

RouteInit ==
    /\ stations = BuiltStations(MaxStations)
    /\ stationCount = MaxStations
    /\ \E edges \in SUBSET UndirectedEdges(MaxStations) :
          /\ Cardinality(edges) <= MaxEdges
          /\ adj = AdjOf(edges)
    /\ include_planned = 1
    /\ NoLine /\ NoQuery /\ NoName /\ NoLastRoute /\ NoData

\* The end of the query: its locals go out of scope and the program is
\* back at the menu.
BackToMenu ==
    /\ status # "none"
    /\ ClearQuery
    /\ UNCHANGED <<netVars, lineVars, nameVars, mainVars>>

\* main, choice 1: the key of a name read from the terminal, looked up.
lookup_name(net, ip, raw) ==
    lookup_key(net, ip, normalize_inplace(strncpy(raw, NAME_MAX)), 0, -1)

\* main, choice 1, after a successful search r: the path and its alternates.
\* The path is labelled, its alternates are searched and it is stored as
\* the last route.
FoundRoute(net, p) ==
    /\ status' = "ok"
    /\ path' = p
    /\ edgeLines' = build_edge_lines(net.stations, p)
    /\ alternates' = find_alternates(net, p)
    /\ last_path' = p

\* Variant of NoResult that sets last_len = 0.
NoResultForgets(st) ==
    /\ status' = st
    /\ path' = <<>> /\ alternates' = <<>> /\ edgeLines' = <<>>
    /\ last_path' = <<>>

\* main, choice 1, a "continue" before the route is printed: nothing is
\* labelled, searched for alternates or stored.
NoResult(st) ==
    /\ status' = st
    /\ path' = <<>> /\ alternates' = <<>> /\ edgeLines' = <<>>
    /\ UNCHANGED last_path

\* main, choice 1, once both stations are found.
SearchRoute(net, s, d, r) ==
    IF r.found = 0
    THEN NoResult("no_route")
    ELSE \E p \in {reconstruct_path(r.parent, d)} : FoundRoute(net, p)

\* main, choice 1 ("Find route") from the two names read, drawn from names,
\* to the alternates: what it assigns.
RouteQuery(names) ==
    /\ status = "none"
    /\ \E srcraw \in names, dstra \in names,
          net \in {Net(stations, stationCount, adj)} :
        \E s \in {lookup_name(net, include_planned, srcraw)},
           d \in {lookup_name(net, include_planned, dstra)} :
            /\ src' = s
            /\ dest' = d
            /\ blocked_a' = <<>>
            /\ blocked_b' = <<>>
            /\ IF s = -1
               THEN NoResult("src_not_found")
               ELSE IF d = -1
               THEN NoResult("dest_not_found")
               ELSE \E r \in {bfs_simple(net, s, d, parent_init(net))} :
                        SearchRoute(net, s, d, r)

\* The edges of a path, in both orientations.
EdgesOf(p) ==
    {<<p[i], p[i + 1]>> : i \in 1..(Len(p) - 1)} \cup {<<p[i + 1], p[i]>> : i \in 1..(Len(p) - 1)}

\* Variant of FindRouteOf in which an edge is blocked by clearing it in
\* adj[][] and is not set again: the edges of the primary route are gone
\* after the alternates were searched.
FindRouteClearing(names) ==
    /\ RouteQuery(names)
    /\ adj' = adj \ EdgesOf(path')
    /\ UNCHANGED <<stations, stationCount, include_planned, lineVars, nameVars, lineDefs>>

\* main, choice 1: the globals, the line data and include_planned are read
\* only.
FindRouteOf(names) ==
    /\ RouteQuery(names)
    /\ UNCHANGED <<netVars, lineVars, nameVars, lineDefs>>

FindRoute == FindRouteOf(QueryNames(stationCount))

\* The first route of a session: main, choice 1, while last_len = 0.
FirstRoute == NoLastRoute /\ FindRoute

RouteNext == FirstRoute \/ BackToMenu

SpecRoute == RouteInit /\ [][RouteNext]_vars

(***************************************************************************)
(* Searches with a caller-supplied set of blocked edges                    *)
(***************************************************************************)
BfsInit ==
    /\ stations = BuiltStations(MaxBfsStations)
    /\ stationCount = MaxBfsStations
    /\ \E edges \in SUBSET UndirectedEdges(MaxBfsStations) : adj = AdjOf(edges)
    /\ include_planned = 1
    /\ NoLine /\ NoQuery /\ NoName /\ NoLastRoute /\ NoData

\* bfs_with_blocked_edges with blocked arrays of any content, followed by
\* the reconstruction its callers run on success.
ShortestPath ==
    /\ status = "none"
    /\ \E s \in 0..(stationCount - 1), d \in 0..(stationCount - 1),
       ba \in SeqsUpTo(0..(stationCount - 1), MaxBlocked) :
        \E bb \in [1..Len(ba) -> 0..(stationCount - 1)] :
            \E r \in {bfs_with_blocked_edges(Net(stations, stationCount, adj), s, d,
                                              parent_init(Net(stations, stationCount, adj)),
                                              ba, bb)} :
                /\ src' = s
                /\ dest' = d
                /\ blocked_a' = ba
                /\ blocked_b' = bb
                /\ status' = IF r.found = 1 THEN "ok" ELSE "no_route"
                /\ path' = IF r.found = 1 THEN reconstruct_path(r.parent, d) ELSE <<>>
                /\ alternates' = <<>>
    /\ UNCHANGED <<netVars, lineVars, nameVars, mainVars, edgeLines>>

BfsNext == ShortestPath \/ BackToMenu

SpecBfs == BfsInit /\ [][BfsNext]_vars

(***************************************************************************)
(* Builds from names without a letter or digit and from long line names    *)
(***************************************************************************)
\* Two names that consist of punctuation and whitespace, and a plain name.
OddEntries == { [name |-> <<".">>,      planned |-> 0],
                [name |-> <<"-", " ">>, planned |-> 1],
                [name |-> <<"a">>,      planned |-> 0] }

OddLists == SeqsUpTo(OddEntries, MaxLineLen)

\* A line name one character longer than a lines[] entry holds, and "p".
LongLine == [i \in 1..(LINE_MAX + 1) |-> "q"]

OddLineNames == { LongLine, <<"p">> }

AddOddLine == AddLineOf(OddLineNames, OddLists)

OddNext == BuildReset \/ AddOddLine

SpecOdd == Init /\ [][OddNext]_vars

(***************************************************************************)
(* Builds that fill the station table                                      *)
(***************************************************************************)
DigitChars == <<"0", "1", "2", "3", "4", "5", "6", "7", "8", "9">>

\* The three-digit name of station i.
NumName(i) ==
    <<DigitChars[((i \div 100) % 10) + 1], DigitChars[((i \div 10) % 10) + 1],
      DigitChars[(i % 10) + 1]>>

\* Station i of a line "p" of numbered stations.
NumStation(i) ==
    [ key_name     |-> NumName(i),
      display_name |-> NumName(i),
      lines        |-> << <<"p">> >>,
      planned      |-> 0 ]

\* adj[][] after a line of n stations
ChainAdj(n) == AdjOf({<<i, i + 1>> : i \in 0..(n - 2)})

\* A registered name, two new names and a second spelling of a new name.
FullEntries == { [name |-> NumName(0),       planned |-> 0],
                 [name |-> <<"x">>,          planned |-> 0],
                 [name |-> <<"y">>,          planned |-> 1],
                 [name |-> <<"X", ".">>,     planned |-> 0] }

FullLists == SeqsUpTo(FullEntries, MaxLineLen)

\* After a first line "p" that left at most MaxFree entries of stations[] free.
FullInit ==
    /\ \E n \in (MAX - MaxFree)..MAX :
          /\ stations = [i \in 1..n |-> NumStation(i - 1)]
          /\ stationCount = n
          /\ adj = ChainAdj(n)
    /\ include_planned = 1
    /\ linesAdded = 0 /\ list = <<>> /\ ids = <<>>
    /\ NoQuery /\ NoName /\ NoLastRoute /\ NoData

AddFullLine == AddLineOf(LineNames, FullLists)

FullNext == AddFullLine

SpecFull == FullInit /\ [][FullNext]_vars

(***************************************************************************)
(* The menu loop of main and the entry get_route on a network built from   *)
(* line arrays                                                             *)
(***************************************************************************)
\* The line arrays of build_network: two lines, the stations of each drawn
\* from three names; every planned flag is 0 as in build_network.
NetNames == { <<"a">>, <<"b">>, <<"c">> }

NetLists == UNION { [1..k -> NetNames] : k \in 1..MaxNetLen }

NetLine(name, lst) == [name |-> name, list |-> lst, planned |-> [i \in 1..Len(lst) |-> 0]]

NetworkDefs == { <<NetLine(<<"p">>, l1), NetLine(<<"g">>, l2)>> : l1 \in NetLists, l2 \in NetLists }

\* What a user may type: the names of the network, an unknown name and the
\* empty line.
MenuNames == NetNames \cup { <<"z">>, <<>> }

\* main up to its loop: include_planned = 1, build_network, last_len = 0.
MenuInit ==
    /\ lineDefs \in NetworkDefs
    /\ \E net \in {build_network(ZeroNet, lineDefs)} :
          /\ stations = net.stations
          /\ stationCount = net.stationCount
          /\ adj = net.adj
    /\ stationCount # 0
    /\ include_planned = 1
    /\ NoLine /\ NoQuery /\ NoName /\ NoLastRoute

\* main, choice 5: include_planned = !include_planned; build_network.
TogglePlanned ==
    /\ status = "none"
    /\ include_planned' = IF include_planned = 0 THEN 1 ELSE 0
    /\ \E net \in {build_network(Net(stations, stationCount, adj), lineDefs)} :
          /\ stations' = net.stations
          /\ stationCount' = net.stationCount
          /\ adj' = net.adj
    /\ UNCHANGED <<lineVars, queryVars, nameVars, mainVars>>

\* get_route once both stations are found: the search, the path and its
\* edge lines.
GetRouteSearch(net, d, r) ==
    IF r.found = 0
    THEN status' = "no_route" /\ path' = <<>> /\ edgeLines' = <<>>
    ELSE \E p \in {reconstruct_path(r.parent, d)} :
            /\ status' = "ok"
            /\ path' = p
            /\ edgeLines' = build_edge_lines(net.stations, p)

\* get_route after build_network and the two guards: the lookup and the
\* three "not found" returns.
GetRouteLookup(net, s, d) ==
    /\ src' = s
    /\ dest' = d
    /\ IF s = -1 /\ d = -1
       THEN status' = "both_not_found" /\ path' = <<>> /\ edgeLines' = <<>>
       ELSE IF s = -1
       THEN status' = "src_not_found" /\ path' = <<>> /\ edgeLines' = <<>>
       ELSE IF d = -1
       THEN status' = "dest_not_found" /\ path' = <<>> /\ edgeLines' = <<>>
       ELSE \E r \in {bfs_simple(net, s, d, parent_init(net))} : GetRouteSearch(net, d, r)

\* get_route(from, to) on the network net it has built.
GetRouteOn(net, from, to) ==
    /\ stations' = net.stations
    /\ stationCount' = net.stationCount
    /\ adj' = net.adj
    /\ IF net.stationCount = 0
       THEN /\ status' = "not_loaded"
            /\ src' = -1 /\ dest' = -1 /\ path' = <<>> /\ edgeLines' = <<>>
       ELSE IF from = <<>> \/ to = <<>>
       THEN /\ status' = "no_input"
            /\ src' = -1 /\ dest' = -1 /\ path' = <<>> /\ edgeLines' = <<>>
       ELSE \E s \in {lookup_name(net, 1, from)}, d \in {lookup_name(net, 1, to)} :
                GetRouteLookup(net, s, d)

\* get_route: it rebuilds the network with its own include_planned = 1 and
\* searches no alternates.  It is the entry of the WebAssembly build, called
\* where main's loop does not run: main's locals are as at program start.
GetRoute ==
    /\ status = "none"
    /\ NoLastRoute /\ include_planned = 1
    /\ \E from \in MenuNames, to \in MenuNames :
          \E net \in {build_network(Net(stations, stationCount, adj), lineDefs)} :
              GetRouteOn(net, from, to)
    /\ blocked_a' = <<>>
    /\ blocked_b' = <<>>
    /\ alternates' = <<>>
    /\ UNCHANGED <<include_planned, lineVars, nameVars, mainVars>>

\* main, choice 1, with what a user may type.
MenuRoute == FindRouteOf(MenuNames)

\* Line arrays of a later build: one line of either name.
RebuildDefs == { <<NetLine(name, lst)>> : name \in LineNames, lst \in NetLists }

\* build_network with other line arrays than the build before it: the
\* arrays are data of build_network, and a build replaces them as a whole.
Rebuild ==
    /\ status = "none"
    /\ lineDefs' \in RebuildDefs
    /\ \E net \in {build_network(Net(stations, stationCount, adj), lineDefs')} :
          /\ stations' = net.stations
          /\ stationCount' = net.stationCount
          /\ adj' = net.adj
    /\ UNCHANGED <<include_planned, lineVars, queryVars, nameVars, last_path>>

RebuildNext == Rebuild \/ TogglePlanned

SpecRebuild == MenuInit /\ [][RebuildNext]_vars

MenuNext == MenuRoute \/ TogglePlanned \/ GetRoute \/ BackToMenu

SpecMenu == MenuInit /\ [][MenuNext]_vars

(***************************************************************************)
(* The menu loop of main with its export                                   *)
(***************************************************************************)
\* main, choice 4: refused while last_len == 0, else the edge lines of the
\* stored route are built and the route is written to a file.
Export ==
    /\ status = "none"
    /\ IF last_path = <<>>
       THEN status' = "no_last_route" /\ edgeLines' = <<>>
       ELSE status' = "exported" /\ edgeLines' = build_edge_lines(stations, last_path)
    /\ UNCHANGED <<src, dest, blocked_a, blocked_b, path, alternates>>
    /\ UNCHANGED <<netVars, lineVars, nameVars, mainVars>>

\* main, choice 2: show_all_stations prints the table.
ShowStations ==
    /\ status = "none"
    /\ status' = "listed"
    /\ UNCHANGED <<src, dest, blocked_a, blocked_b, path, alternates, edgeLines>>
    /\ UNCHANGED <<netVars, lineVars, nameVars, mainVars>>

\* main, choice 3: a prefix is normalized in a local buffer and the keys
\* that begin with it are printed.
Autocomplete ==
    /\ status = "none"
    /\ status' = "completed"
    /\ UNCHANGED <<src, dest, blocked_a, blocked_b, path, alternates, edgeLines>>
    /\ UNCHANGED <<netVars, lineVars, nameVars, mainVars>>

LoopNext ==
    MenuRoute \/ ShowStations \/ Autocomplete \/ Export \/ TogglePlanned \/ BackToMenu

SpecLoop == MenuInit /\ [][LoopNext]_vars

(***************************************************************************)
(* get_route calls that overlap in a concurrent host                       *)
(***************************************************************************)
\* The network after a complete build_network of the line arrays; the
\* build has made one add_line_with_plan call for each line.
SwapInit ==
    /\ lineDefs \in NetworkDefs
    /\ \E net \in {build_network(ZeroNet, lineDefs)} :
          /\ stations = net.stations
          /\ stationCount = net.stationCount
          /\ adj = net.adj
    /\ include_planned = 1
    /\ linesAdded = Len(lineDefs) /\ list = <<>> /\ ids = <<>>
    /\ NoQuery /\ NoName /\ NoLastRoute

\* A get_route call enters build_network while no other build is in
\* flight: stationCount = 0 and the adjacency matrix cleared, on the
\* globals themselves.
SwapReset ==
    /\ linesAdded = Len(lineDefs)
    /\ \E net \in {build_reset(Net(stations, stationCount, adj))} :
          /\ stations' = net.stations
          /\ stationCount' = net.stationCount
          /\ adj' = net.adj
    /\ ClearLine
    /\ UNCHANGED <<include_planned, queryVars, nameVars, mainVars>>

\* The build in flight makes its next add_line_with_plan call.
SwapAddLine ==
    /\ linesAdded < Len(lineDefs)
    /\ \E r \in {add_line_with_plan(Net(stations, stationCount, adj),
                                     lineDefs[linesAdded + 1].name,
                                     lineDefs[linesAdded + 1].list,
                                     Flags(lineDefs[linesAdded + 1].planned))} :
          /\ stations' = r.net.stations
          /\ stationCount' = r.net.stationCount
          /\ adj' = r.net.adj
          /\ ids' = r.ids
    /\ linesAdded' = linesAdded + 1
    /\ list' = lineDefs[linesAdded + 1].list
    /\ UNCHANGED <<include_planned, queryVars, nameVars, mainVars>>

\* Another get_route call, whose own build_network has returned, goes on
\* from its stationCount test to the search: it reads the globals as they
\* are, no lock or copy in between.
SwapRead ==
    /\ status = "none"
    /\ \E from \in MenuNames, to \in MenuNames :
          GetRouteOn(Net(stations, stationCount, adj), from, to)
    /\ blocked_a' = <<>>
    /\ blocked_b' = <<>>
    /\ alternates' = <<>>
    /\ UNCHANGED <<include_planned, lineVars, nameVars, mainVars>>

SwapNext == SwapReset \/ SwapAddLine \/ SwapRead \/ BackToMenu

SpecSwap == SwapInit /\ [][SwapNext]_vars

(***************************************************************************)
(* Builds that fill the line tags of a station                             *)
(***************************************************************************)
\* The station named name after n lines with numbered names.
TagStation(name, n) ==
    [ key_name     |-> name,
      display_name |-> name,
      lines        |-> [i \in 1..n |-> NumName(i)],
      planned      |-> 0 ]

\* The two stations of the lines so far and a new one.
TagEntries == { [name |-> <<"a">>, planned |-> 0],
                [name |-> <<"b">>, planned |-> 0],
                [name |-> <<"c">>, planned |-> 0] }

TagLists == SeqsUpTo(TagEntries, MaxLineLen)

\* After lines with numbered names, each of the stations "a" and "b", that
\* left at most MaxFree entries of the two stations' lines[] free.
TagInit ==
    /\ \E n \in (LINE_SLOTS - MaxFree)..LINE_SLOTS :
          stations = <<TagStation(<<"a">>, n), TagStation(<<"b">>, n)>>
    /\ stationCount = 2
    /\ adj = ChainAdj(2)
    /\ include_planned = 1
    /\ NoLine /\ NoQuery /\ NoName /\ NoLastRoute /\ NoData

AddTagLine == AddLineOf(LineNames, TagLists)

TagNext == AddTagLine

SpecTags == TagInit /\ [][TagNext]_vars

(***************************************************************************)
(* The line arrays of build_network                                        *)
(***************************************************************************)
\* const char *purple[]
purple ==
    << <<"c", "h", "a", "l", "l", "a", "g", "h", "a", "t", "t", "a">>,
       <<"k", "e", "n", "g", "e", "r", "i">>,
       <<"K", "e", "n", "g", "e", "r", "i", " ", "B", "u", "s", " ", "T", "e", "r", "m", "i", "n", "a", "l">>,
       <<"P", "a", "t", "t", "a", "n", "a", "g", "e", "r", "e">>,
       <<"J", "n", "a", "n", "b", "h", "a", "r", "a", "t", "i">>,
       <<"R", "a", "j", "a", "r", "a", "j", "e", "s", "h", "w", "a", "r", "i", " ", "N", "a", "g", "a", "r">>,
       <<"N", "a", "y", "a", "n", "d", "a", "h", "a", "l", "l", "i">>,
       <<"m", "y", "s", "o", "r", "e", " ", "r", "o", "a", "d">>,
       <<"d", "e", "e", "p", "a", "n", "j", "a", "l", "i", " ", "n", "a", "g", "a", "r">>,
       <<"a", "t", "t", "i", "g", "u", "p", "p", "e">>,
       <<"v", "i", "j", "a", "y", "a", "n", "a", "g", "a", "r">>,
       <<"H", "o", "s", "a", "h", "a", "l", "l", "i">>,
       <<"m", "a", "g", "a", "d", "i", " ", "r", "o", "a", "d">>,
       <<"m", "a", "j", "e", "s", "t", "i", "c">>,
       <<"C", "e", "n", "t", "r", "a", "l", " ", "R", "o", "a", "d">>,
       <<"V", "i", "d", "h", "a", "n", "a", " ", "S", "o", "u", "d", "h", "a">>,
       <<"C", "u", "b", "b", "o", "n", " ", "P", "a", "r", "k">>,
       <<"m", ".", "g", ".", " ", "r", "o", "a", "d">>,
       <<"t", "r", "i", "n", "i", "t", "y">>,
       <<"h", "a", "l", "a", "s", "u", "r", "u">>,
       <<"i", "n", "d", "i", "r", "a", "n", "a", "g", "a", "r">>,
       <<"s", "w", "a", "m", "i", " ", "v", "i", "v", "e", "k", "a", "n", "a", "n", "d", "a", " ", "r", "o", "a", "d">>,
       <<"b", "a", "i", "y", "a", "p", "p", "a", "n", "a", "h", "a", "l", "l", "i">>,
       <<"B", "e", "n", "n", "i", "g", "a", "n", "a", "h", "a", "l", "l", "i">>,
       <<"k", "r", " ", "p", "u", "r", "a", "m">>,
       <<"S", "i", "n", "g", "a", "y", "y", "a", "n", "a", "p", "a", "l", "y", "a">>,
       <<"G", "a", "r", "u", "d", "a", "c", "h", "a", "r", "p", "a", "l", "a", "y", "a">>,
       <<"h", "o", "o", "d", "i">>,
       <<"S", "e", "e", "t", "h", "a", "r", "a", "m", "p", "a", "l", "y", "a">>,
       <<"K", "u", "n", "d", "a", "l", "a", "h", "a", "l", "l", "i">>,
       <<"N", "a", "l", "l", "u", "r", "h", "a", "l", "l", "i">>,
       <<"S", "r", "i", " ", "S", "a", "t", "y", "a", " ", "S", "a", "i", " ", "H", "o", "s", "p", "i", "t", "a", "l">>,
       <<"P", "a", "t", "t", "a", "n", "d", "u", "r", " ", "A", "g", "r", "a", "h", "a", "r", "a">>,
       <<"K", "a", "d", "u", "g", "o", "d", "i", " ", "T", "r", "e", "e", " ", "P", "a", "r", "k">>,
       <<"C", "h", "a", "n", "n", "a", "s", "a", "n", "d", "r", "a", "(", "H", "o", "p", "e", "F", "a", "r", "m", ")">>,
       <<"w", "h", "i", "t", "e", "f", "i", "e", "l", "d", "(", "K", "a", "d", "u", "g", "o", "d", "i", ")">> >>

\* const char *green[]
green ==
    << <<"M", "a", "d", "a", "v", "a", "r", "a">>,
       <<"C", "h", "i", "k", "k", "a", "b", "i", "d", "a", "r", "a", "k", "a", "l", "l", "u">>,
       <<"M", "a", "n", "j", "u", "n", "a", "t", "h", "a", "n", "a", "g", "a", "r">>,
       <<"n", "a", "g", "a", "s", "a", "n", "d", "r", "a">>,
       <<"D", "a", "s", "a", "r", "h", "a", "l", "l", "i">>,
       <<"J", "a", "l", "a", "h", "a", "l", "l", "i">>,
       <<"P", "e", "e", "n", "y", "a", " ", "I", "n", "d", "u", "s", "t", "r", "y">>,
       <<"P", "e", "e", "n", "y", "a">>,
       <<"G", "o", "r", "g", "u", "n", "t", "e", "p", "a", "l", "y", "a">>,
       <<"Y", "e", "s", "w", "a", "n", "t", "p", "u", "r">>,
       <<"S", "a", "n", "d", "a", "l", " ", "S", "o", "a", "p", " ", "F", "a", "c", "t", "o", "r", "y">>,
       <<"M", "a", "h", "a", "l", "a", "k", "s", "h", "m", "i">>,
       <<"R", "a", "j", "i", "j", "n", "a", "g", "a", "r">>,
       <<"K", "u", "v", "e", "m", "p", "u", " ", "r", "o", "a", "d">>,
       <<"S", "r", "i", "r", "a", "m", "p", "u", "r", "a">>,
       <<"S", "a", "m", "p", "i", "g", "e", " ", "R", "o", "a", "d">>,
       <<"m", "a", "j", "e", "s", "t", "i", "c">>,
       <<"C", "h", "i", "c", "k", "p", "e", "t", "e">>,
       <<"K", "r", "i", "s", "h", "n", "a", " ", "R", "a", "j", "e", "n", "d", "r", "a", " ", "M", "a", "r", "k", "e", "t">>,
       <<"N", "a", "t", "i", "o", "n", "a", "l", " ", "C", "o", "l", "l", "e", "g", "e">>,
       <<"L", "a", "l", "b", "a", "g", "h">>,
       <<"S", "o", "u", "t", "h", " ", "E", "n", "d", " ", "C", "i", "r", "c", "l", "e">>,
       <<"J", "a", "y", "a", "n", "a", "g", "a", "r">>,
       <<"R", "a", "s", "h", "t", "r", "e", "e", "y", "a", " ", "V", "i", "d", "y", "a", "l", "a", "y", "a", " ", "R", "o", "a", "d">>,
       <<"B", "a", "n", "a", "s", "h", "a", "n", "k", "a", "r", "i">>,
       <<"j", "a", "y", "a", "d", "e", "v", "a", " ", "h", "o", "s", "p", "i", "t", "a", "l">>,
       <<"Y", "e", "l", "a", "c", "h", "e", "n", "a", "h", "a", "l", "l", "i">>,
       <<"K", "o", "n", "a", "n", "a", "k", "u", "n", "t", "e", " ", "C", "r", "o", "s", "s">>,
       <<"V", "a", "j", "a", "r", "a", "h", "a", "l", "l", "i">>,
       <<"T", "h", "a", "l", "a", "g", "h", "a", "t", "t", "a", "p", "u", "r", "a">>,
       <<"S", "i", "l", "k", " ", "I", "n", "s", "t", "i", "t", "u", "t", "e">> >>

\* const char *pink[]
pink ==
    << <<"k", "a", "l", "e", "n", "a", " ", "a", "g", "r", "a", "h", "a", "r", "a">>,
       <<"h", "u", "l", "i", "m", "a", "v", "u">>,
       <<"i", "i", "m", " ", "b", "a", "n", "g", "a", "l", "o", "r", "e">>,
       <<"j", "p", " ", "n", "a", "g", "a", "r", " ", "4", "t", "h", " ", "p", "h", "a", "s", "e">>,
       <<"j", "a", "y", "a", "d", "e", "v", "a", " ", "h", "o", "s", "p", "i", "t", "a", "l">>,
       <<"T", "a", "v", "a", "r", "e", "k", "e", "r", "e">>,
       <<"d", "a", "i", "r", "y", " ", "c", "i", "r", "c", "l", "e">>,
       <<"l", "a", "k", "k", "a", "s", "a", "n", "d", "r", "a">>,
       <<"l", "a", "n", "g", "f", "o", "r", "d", " ", "t", "o", "w", "n">>,
       <<"r", "a", "s", "h", "t", "r", "i", "y", "a", " ", "m", "i", "l", "i", "t", "a", "r", "y", " ", "s", "c", "h", "o", "o", "l">>,
       <<"m", "g", " ", "r", "o", "a", "d">>,
       <<"s", "h", "i", "v", "a", "j", "i", "n", "a", "g", "a", "r">>,
       <<"C", "a", "n", "t", "o", "n", "m", "e", "n", "t">>,
       <<"P", "o", "t", "t", "e", "r", "y", " ", "T", "o", "w", "n">>,
       <<"t", "a", "n", "n", "e", "r", "y", " ", "r", "o", "a", "d">>,
       <<"V", "e", "n", "k", "a", "t", "e", "s", "h", "p", "u", "r", "a">>,
       <<"k", "a", "d", "u", "g", "u", "n", "d", "a", "n", "a", "h", "a", "l", "l", "i">>,
       <<"n", "a", "g", "a", "w", "a", "r", "a">> >>

\* The three add_line_with_plan calls of build_network: purple, green, pink.
MetroDefs ==
    << NetLine(<<"p", "u", "r", "p", "l", "e">>, purple),
       NetLine(<<"g", "r", "e", "e", "n">>, green),
       NetLine(<<"p", "i", "n", "k">>, pink) >>

\* main before its loop, inside its build_network call: the globals are
\* zero-initialised, the reset has nothing to clear, and the first
\* add_line_with_plan call is about to be made.
MetroInit ==
    /\ stations = <<>> /\ stationCount = 0 /\ adj = {}
    /\ include_planned = 1
    /\ lineDefs = MetroDefs
    /\ NoLine /\ NoQuery /\ NoName /\ NoLastRoute

\* add_line_with_plan, one iteration of its first loop: the call in flight
\* is the one for line linesAdded + 1, and ids holds the identities of the
\* names taken so far.
MetroName ==
    /\ linesAdded < Len(lineDefs)
    /\ Len(ids) < Len(lineDefs[linesAdded + 1].list)
    /\ \E r \in {add_line_tagged(
                     add_line_find(Net(stations, stationCount, adj),
                                   lineDefs[linesAdded + 1].list[Len(ids) + 1],
                                   planned_of(Flags(lineDefs[linesAdded + 1].planned),
                                              Len(ids) + 1)),
                     lineDefs[linesAdded + 1].name)} :
          /\ stations' = r.net.stations
          /\ stationCount' = r.net.stationCount
          /\ adj' = r.net.adj
          /\ ids' = Append(ids, r.id)
    /\ list' = lineDefs[linesAdded + 1].list
    /\ UNCHANGED <<linesAdded, include_planned, queryVars, nameVars, mainVars>>

\* add_line_with_plan, its second loop and its return.
MetroConnect ==
    /\ linesAdded < Len(lineDefs)
    /\ Len(ids) = Len(lineDefs[linesAdded + 1].list)
    /\ adj' = add_line_connect(adj, ids, 1)
    /\ linesAdded' = linesAdded + 1
    /\ list' = <<>>
    /\ ids' = <<>>
    /\ UNCHANGED <<stations, stationCount, include_planned, queryVars, nameVars, mainVars>>

\* main, choice 5, up to the first add_line_with_plan call of its
\* build_network.
MetroToggle ==
    /\ linesAdded = Len(lineDefs)
    /\ include_planned' = IF include_planned = 0 THEN 1 ELSE 0
    /\ \E net \in {build_reset(Net(stations, stationCount, adj))} :
          /\ stations' = net.stations
          /\ stationCount' = net.stationCount
          /\ adj' = net.adj
    /\ ClearLine
    /\ UNCHANGED <<queryVars, nameVars, mainVars>>

MetroNext == MetroName \/ MetroConnect \/ MetroToggle

SpecMetro == MetroInit /\ [][MetroNext]_vars

(***************************************************************************)
(* Name keys                                                               *)
(***************************************************************************)
\* The three spellings normalize_inplace's comment lists.
MG_Dotted == <<"M", ".", "G", ".", " ", "R", "o", "a", "d">>
MG_Lower  == <<"m", "g", " ", "r", "o", "a", "d">>
MG_Spaced == <<"M", " ", "G", " ", "R", "O", "A", "D">>
MG_Spellings == {MG_Dotted, MG_Lower, MG_Spaced}

\* Characters of the bounded inputs: letters of both cases, a digit, two
\* whitespace characters and a punctuation character.
NameAlphabet == {"a", "B", "1", " ", "\t", "."}

NameInputs == SeqsUpTo(NameAlphabet, MaxNameLen) \cup MG_Spellings

NameInit ==
    /\ stations = <<>> /\ stationCount = 0 /\ adj = {}
    /\ include_planned = 1
    /\ NoLine /\ NoQuery /\ NoLastRoute /\ NoData
    /\ nm_raw \in NameInputs
    /\ nm_s = nm_raw
    /\ nm_prev = nm_raw
    /\ nm_calls = 0

\* normalize_inplace(s) on the buffer.
Normalize ==
    /\ nm_calls < MaxCalls
    /\ nm_prev' = nm_s
    /\ nm_s' = normalize_inplace(nm_s)
    /\ nm_calls' = nm_calls + 1
    /\ UNCHANGED <<nm_raw, netVars, lineVars, queryVars, mainVars>>

NameNext == Normalize

SpecName == NameInit /\ [][NameNext]_vars

(***************************************************************************)
(* Properties                                                              *)
(***************************************************************************)
Ids == 0..(stationCount - 1)

\* The pairs a search may not traverse: the blocked arrays, both orientations.
BlockedPairs ==
    {<<blocked_a[b], blocked_b[b]>> : b \in 1..Len(blocked_a)}
        \cup {<<blocked_b[b], blocked_a[b]>> : b \in 1..Len(blocked_a)}

\* The stations one unblocked edge away from a station of S.
Step(S) == {v \in Ids : \E u \in S : <<u, v>> \in adj /\ <<u, v>> \notin BlockedPairs}

\* Hop distance from the set S (k hops from the start) to d, -1 if d cannot
\* be reached: grown level by level, without queue or parent array.
RECURSIVE HopsFrom(_, _, _)
RECURSIVE HopsOn(_, _, _, _)
HopsOn(S, T, k, d) == IF T = S THEN -1 ELSE HopsFrom(T, k + 1, d)

HopsFrom(S, k, d) == IF d \in S THEN k ELSE HopsOn(S, S \cup Step(S), k, d)

Hops(s, d) == HopsFrom({s}, 0, d)

\* p runs from s to d over edges of the graph and repeats no station.
IsRoute(p, s, d) ==
    /\ Len(p) >= 1
    /\ p[1] = s
    /\ p[Len(p)] = d
    /\ \A i \in 1..(Len(p) - 1) : <<p[i], p[i + 1]>> \in adj
    /\ \A i \in 1..Len(p) : \A j \in 1..Len(p) : p[i] = p[j] => i = j

\* p traverses the pair <<a, b>> in one of the two directions.
Traverses(p, a, b) ==
    \E i \in 1..(Len(p) - 1) :
        \/ (p[i] = a /\ p[i + 1] = b)
        \/ (p[i] = b /\ p[i + 1] = a)

\* C1: without blocked edges, a search between two registered stations
\* returns a route from src to dest with the minimum number of hops (the
\* one-station route when src = dest), and reports no route exactly when
\* dest cannot be reached from src.
C1_ShortestPath ==
    (status \in {"ok", "no_route"} /\ blocked_a = <<>>) =>
        /\ (status = "no_route") <=> (Hops(src, dest) = -1)
        /\ status = "ok" =>
              /\ IsRoute(path, src, dest)
              /\ Len(path) - 1 = Hops(src, dest)
              /\ src = dest => path = <<src>>

\* A shortest route of two hops or more was returned in a graph that also
\* holds a different route between the same stations.
C1_Witness ==
    /\ status = "ok"
    /\ Len(path) >= 3
    /\ Len(alternates) >= 1

\* C2: a path returned by a search with blocked edges traverses no blocked
\* pair in either direction, and the search finds a path whenever dest can
\* be reached from src without a blocked edge.
C2_BlockedAvoided ==
    status \in {"ok", "no_route"} =>
        /\ status = "ok" =>
              \A i \in 1..(Len(path) - 1) : <<path[i], path[i + 1]>> \notin BlockedPairs
        /\ (Hops(src, dest) # -1) => status = "ok"

\* The direct edge from src to dest is blocked, given in the opposite
\* orientation, and the search returned a two-hop detour.
C2_Witness ==
    /\ status = "ok"
    /\ Len(blocked_a) = 1
    /\ blocked_a[1] = dest /\ blocked_b[1] = src
    /\ <<src, dest>> \in adj
    /\ Len(path) = 3

\* C3: the primary route and every alternate start at the source, end at the
\* destination, repeat no station and step along edges of the graph.
C3_PathsValid ==
    status = "ok" =>
        /\ IsRoute(path, src, dest)
        /\ \A a \in 1..Len(alternates) : IsRoute(alternates[a].path, src, dest)

\* An alternate longer than the primary route was returned.
C3_Witness ==
    /\ status = "ok"
    /\ src # dest
    /\ \E a \in 1..Len(alternates) : Len(alternates[a].path) > Len(path)

C5_AlternatesOrdered ==
    status = "ok" =>
        /\ \A a \in 1..Len(alternates) :
              /\ alternates[a].edge \in 0..(Len(path) - 2)
              /\ ~Traverses(alternates[a].path,
                            path[alternates[a].edge + 1], path[alternates[a].edge + 2])
        /\ \A a \in 1..(Len(alternates) - 1) :
              alternates[a].edge < alternates[a + 1].edge
        /\ \A a \in 1..Len(alternates) :
              \A e \in 0..(alternates[a].edge - 1) :
                  \* an earlier edge gave no new route
                  \/ \E b \in 1..(a - 1) : ~Traverses(alternates[b].path, path[e + 1], path[e + 2])
                  \/ \A b \in 1..Len(alternates) : Traverses(alternates[b].path, path[e + 1], path[e + 2])

\* Two alternates, the first for the first edge of the primary route.
C5_Witness ==
    /\ status = "ok"
    /\ Len(alternates) >= 2
    /\ alternates[1].edge = 0
    /\ alternates[2].edge >= 1

\* C6: the three spellings "M.G. Road", "mg road" and "M G ROAD" normalize
\* to one key.
C6_SameKey ==
    (nm_calls = 1 /\ nm_raw \in MG_Spellings) =>
        \A other \in MG_Spellings : normalize_inplace(other) = nm_s

\* s holds only letters, digits and whitespace.
AcceptedChars(s) == \A i \in 1..Len(s) : isalnum(s[i]) \/ isspace(s[i])

\* C7: normalizing a second time changes nothing, for every string of
\* letters, digits and whitespace.
C7_Idempotent ==
    (nm_calls = 2 /\ AcceptedChars(nm_raw)) => nm_s = nm_prev

\* raw without its leading and trailing whitespace.
Trimmed(raw) ==
    LET solid == {i \in 1..Len(raw) : ~isspace(raw[i])}
    IN  IF solid = {} THEN <<>>
        ELSE SubSeq(raw, CHOOSE i \in solid : \A j \in solid : i <= j,
                         CHOOSE i \in solid : \A j \in solid : j <= i)

\* C8: the keys of the registered stations are pairwise distinct, every
\* name of a line got the identity of the one station that holds its key,
\* and the identities in use are exactly 0 .. stationCount-1.
C8_KeysDistinct ==
    /\ stationCount <= Len(stations)
    /\ \A i \in Ids : \A j \in Ids :
          StationAt(stations, i).key_name = StationAt(stations, j).key_name => i = j
    /\ \A k \in 1..Len(list) :
          /\ ids[k] \in Ids
          /\ StationAt(stations, ids[k]).key_name = normalize_inplace(list[k])
    /\ \A i \in Ids : StationAt(stations, i).lines # <<>>
    /\ \A e \in adj : e[1] \in Ids /\ e[2] \in Ids

\* One line names the same station under two spellings.
C8_Witness ==
    \E k \in 1..Len(list) : \E m \in 1..Len(list) :
        /\ list[k] # list[m]
        /\ ids[k] = ids[m]

\* A step of add_line_with_plan.
LineStep == linesAdded' = linesAdded + 1

\* C9: registering names leaves the key, display name and planned flag of
\* every station that exists already as they are; a line of known names
\* only leaves the station count and the tables of all stations it does
\* not name unchanged; and a new station's display name is the trimmed
\* first name that was registered under its key.
C9_FirstWriteWins ==
    [][ LineStep =>
          /\ \A i \in Ids :
                /\ StationAt(stations', i).key_name = StationAt(stations, i).key_name
                /\ StationAt(stations', i).display_name = StationAt(stations, i).display_name
                /\ StationAt(stations', i).planned = StationAt(stations, i).planned
                /\ (\A k \in 1..Len(list') : ids'[k] # i) =>
                      StationAt(stations', i) = StationAt(stations, i)
          /\ (\A k \in 1..Len(list') : ids'[k] \in Ids) => stationCount' = stationCount
          /\ \A i \in stationCount..(stationCount' - 1) :
                LET first == CHOOSE k \in 1..Len(list') :
                                /\ ids'[k] = i
                                /\ \A m \in 1..(k - 1) : ids'[m] # i
                IN  StationAt(stations', i).display_name = Trimmed(list'[first])
      ]_vars

\* A name was registered for a station whose display name comes from an
\* earlier, different spelling.
C9_Witness ==
    \E k \in 1..Len(list) :
        /\ ids[k] \in Ids
        /\ StationAt(stations, ids[k]).display_name # Trimmed(list[k])

\* The edges a line adds: the consecutive pairs of ids[] that differ.
ChainOf(idz) ==
    {<<idz[k], idz[k + 1]>> : k \in {m \in 1..(Len(idz) - 1) : idz[m] # idz[m + 1]}}
        \cup {<<idz[k + 1], idz[k]>> : k \in {m \in 1..(Len(idz) - 1) : idz[m] # idz[m + 1]}}

\* C10: the edge relation is symmetric and irreflexive, and a line adds
\* exactly the consecutive pairs of different stations: connecting a
\* station to itself or along an existing edge changes nothing.
C10_GraphSymmetric ==
    /\ [](\A a \in Ids : \A b \in Ids :
            /\ connected(a, b) <=> connected(b, a)
            /\ ~connected(a, a))
    /\ [][ LineStep => adj' = adj \cup ChainOf(ids') ]_vars

\* A line names one station twice in a row in a graph that has an edge.
C10_Witness ==
    /\ adj # {}
    /\ \E k \in 1..(Len(ids) - 1) : ids[k] = ids[k + 1]

\* The entries of a station table that are in use.
Live(st, sc) == SubSeq(st, 1, sc)

\* The endpoints a "not found" result names.
Reported(st) ==
    IF st = "both_not_found" THEN {"source", "destination"}
    ELSE IF st = "src_not_found" THEN {"source"}
    ELSE IF st = "dest_not_found" THEN {"destination"}
    ELSE {}

\* The endpoints whose lookup found no station.
Failed(s, d) ==
    (IF s = -1 THEN {"source"} ELSE {}) \cup (IF d = -1 THEN {"destination"} ELSE {})

\* The results of a query whose two names were looked up.
LookedUp == {"ok", "no_route", "src_not_found", "dest_not_found", "both_not_found"}

\* C11: when a name of a route query matches no registered key, the result
\* names exactly the endpoints that failed (source, destination, or both),
\* no path and no alternate is produced, and the query leaves the stations
\* in use, the station count, the edges and the stored last route unchanged.
C11_StationNotFound ==
    /\ [](status \in LookedUp =>
            /\ Reported(status) = Failed(src, dest)
            /\ Failed(src, dest) # {} =>
                  path = <<>> /\ alternates = <<>> /\ edgeLines = <<>>)
    /\ [][ (status' \in LookedUp /\ Failed(src', dest') # {}) =>
              /\ Live(stations', stationCount') = Live(stations, stationCount)
              /\ stationCount' = stationCount
              /\ adj' = adj
              /\ last_path' = last_path ]_vars

\* C12: a build never stores a station at index MAX or above and the station
\* count never exceeds MAX.
C12_CapacityKept ==
    /\ Len(stations) <= MAX
    /\ stationCount <= MAX

\* C13: no station is ever registered under the empty key: a name that
\* normalizes to the empty key is rejected by the build.
C13_EmptyKeyRejected ==
    \A i \in Ids : StationAt(stations, i).key_name # <<>>

\* C15: after any sequence of add_line_tag calls the line list of a station
\* holds no name twice: tagging a station with a line it carries already
\* changes nothing.
C15_TagsSetLike ==
    \A i \in Ids :
        \A m \in 1..Len(StationAt(stations, i).lines) :
            \A n \in 1..Len(StationAt(stations, i).lines) :
                StationAt(stations, i).lines[m] = StationAt(stations, i).lines[n] => m = n

\* The identities of the stations a line array names, in its order.
LineIds(def) ==
    [k \in 1..Len(def.list) |->
        find_by_key(stations, stationCount, normalize_inplace(def.list[k]), 0)]

\* Every consecutive pair of p is a pair of neighbours in the line's station
\* sequence.
WithinLine(p, def) ==
    \A i \in 1..(Len(p) - 1) :
        \E k \in 1..(Len(def.list) - 1) :
            {LineIds(def)[k], LineIds(def)[k + 1]} = {p[i], p[i + 1]}

\* The line names of station i as a set.
LinesOf(i) == {StationAt(stations, i).lines[k] : k \in 1..Len(StationAt(stations, i).lines)}

\* The lines tagged on station a before the line named l.
TaggedBefore(a, l) ==
    {StationAt(stations, a).lines[k] :
        k \in {j \in 1..Len(StationAt(stations, a).lines) :
                 \A m \in 1..j : StationAt(stations, a).lines[m] # l}}

\* C14 as claimed: every edge of a route that lies within one line of the
\* build is labelled with that line's name, whatever other line its two
\* stations share.
C14_LabelledByLine ==
    status = "ok" =>
        \A d \in 1..Len(lineDefs) :
            WithinLine(path, lineDefs[d]) =>
                \A e \in 1..(Len(path) - 1) : edgeLines[e] = lineDefs[d].name

\* C14 as amended: every edge of a route is labelled with the first line in
\* the line list of its first station that its second station carries too;
\* for a route within one line of the build this is that line's name unless
\* the two stations share a line tagged earlier on the first.
C14_FirstCommonLine ==
    status = "ok" =>
        /\ Len(edgeLines) = Len(path) - 1
        /\ \A e \in 1..(Len(path) - 1) :
              /\ edgeLines[e] \in LinesOf(path[e]) \cap LinesOf(path[e + 1])
              /\ TaggedBefore(path[e], edgeLines[e]) \cap LinesOf(path[e + 1]) = {}
              /\ \A d \in 1..Len(lineDefs) :
                    (/\ WithinLine(path, lineDefs[d])
                     /\ TaggedBefore(path[e], lineDefs[d].name) \cap LinesOf(path[e + 1]) = {})
                        => edgeLines[e] = lineDefs[d].name

\* An edge of a route within the second line is labelled with it although
\* its first station was tagged with another line before.
C14_Witness ==
    /\ status = "ok"
    /\ Len(path) >= 2
    /\ WithinLine(path, lineDefs[2])
    /\ edgeLines[1] = lineDefs[2].name
    /\ TaggedBefore(path[1], lineDefs[2].name) # {}

\* C16: a route query, with its search and its searches for alternates,
\* leaves the station table, the station count and the edge relation as they
\* were: blocking an edge removes no edge.
C16_NetworkUnchanged ==
    [][ (status = "none" /\ status' # "none") =>
            /\ stations' = stations
            /\ stationCount' = stationCount
            /\ adj' = adj ]_vars

\* Alternates were found, each with an edge of the primary route blocked,
\* and every edge of the primary route is an edge of the graph.
C16_Witness ==
    /\ status = "ok"
    /\ Len(alternates) >= 2
    /\ EdgesOf(path) \subseteq adj

\* The network in use: the live entries of the table, the count, the edges.
LiveNet(net) == Net(Live(net.stations, net.stationCount), net.stationCount, net.adj)

\* C17: after any sequence of builds and planned-toggles the stations in
\* use (key, display name, line list, planned flag, each at its identity),
\* the station count and the edges are those of one build of the current
\* line arrays on the tables of a program just started.
C17_FullRebuild ==
    LiveNet(Net(stations, stationCount, adj)) = LiveNet(build_network(ZeroNet, lineDefs))

\* After a toggle, the table holds entries of an earlier, larger build
\* above the stations in use.
C17_Witness ==
    /\ include_planned = 0
    /\ stationCount < Len(stations)
    /\ \E i \in Ids :
          StationAt(stations, i).key_name # StationAt(stations, stationCount).key_name

\* An edge of the graph that is not in the set B of blocked pairs.
EdgeOk(u, v, B) == <<u, v>> \in adj /\ <<u, v>> \notin B

\* The elements of a set of integers in increasing order.
RECURSIVE SortedSeq(_)
SortedSeq(S) == IF S = {} THEN <<>> ELSE <<Least(S)>> \o SortedSeq(S \ {Least(S)})

\* The order in which a search from the head of order takes stations up:
\* the k-th station adds its neighbours that are not in the order yet, in
\* increasing identity.
RECURSIVE Discover(_, _, _)
Discover(order, k, B) ==
    IF k > Len(order) THEN order
    ELSE Discover(order \o SortedSeq({v \in Ids : /\ EdgeOk(order[k], v, B)
                                                   /\ \A j \in 1..Len(order) : order[j] # v}),
                  k + 1, B)

\* Every station of p after the first follows the neighbour of it that
\* comes first in order.
TieBroken(p, order, B) ==
    \A i \in 1..(Len(p) - 1) :
        p[i] = order[Least({k \in 1..Len(order) : EdgeOk(order[k], p[i + 1], B)})]

\* p comes before q, or is q, in the lexicographic order of identities.
LexLeq(p, q) ==
    \A i \in 1..Len(p) : (\A j \in 1..(i - 1) : p[j] = q[j]) => p[i] <= q[i]

\* The walks of n stations from s to d over edges outside B.
RECURSIVE WalksOfLen(_, _, _, _)
WalksOfLen(n, s, d, B) ==
    IF n <= 1 THEN (IF s = d THEN {<<s>>} ELSE {})
    ELSE UNION {{<<s>> \o w : w \in WalksOfLen(n - 1, v, d, B)} :
                v \in {v \in Ids : EdgeOk(s, v, B)}}

\* The two orientations of edge e (0-based) of the path p.
EdgePairs(p, e) == {<<p[e + 1], p[e + 2]>>, <<p[e + 2], p[e + 1]>>}

\* C18: ties between minimum-hop paths are broken by identity order: in the
\* path returned, every station follows the neighbour that the search took
\* from the queue first, which makes the path the least in identity order
\* among the paths of its length between its endpoints; this holds for the
\* primary route and for every alternate under its blocked edge.
C18_TieBreak ==
    status = "ok" =>
        /\ TieBroken(path, Discover(<<src>>, 1, {}), {})
        /\ \A q \in WalksOfLen(Len(path), src, dest, {}) : LexLeq(path, q)
        /\ \A a \in 1..Len(alternates) :
              /\ TieBroken(alternates[a].path,
                           Discover(<<src>>, 1, EdgePairs(path, alternates[a].edge)),
                           EdgePairs(path, alternates[a].edge))
              /\ \A q \in WalksOfLen(Len(alternates[a].path), src, dest,
                                      EdgePairs(path, alternates[a].edge)) :
                    LexLeq(alternates[a].path, q)

\* Two minimum-hop paths lead from src to dest.
C18_Witness ==
    /\ status = "ok"
    /\ Len(path) >= 3
    /\ \E q \in WalksOfLen(Len(path), src, dest, {}) : q # path

\* The tokens of s: its maximal runs of characters that are not whitespace.
RECURSIVE Tokens(_, _, _, _)
Tokens(s, i, cur, acc) ==
    IF i > Len(s) THEN (IF cur = <<>> THEN acc ELSE Append(acc, cur))
    ELSE IF isspace(s[i])
         THEN Tokens(s, i + 1, <<>>, IF cur = <<>> THEN acc ELSE Append(acc, cur))
    ELSE Tokens(s, i + 1, Append(cur, s[i]), acc)

\* The number of characters in the first k tokens of toks.
RECURSIVE CutAt(_, _)
CutAt(toks, k) == IF k = 0 THEN 0 ELSE CutAt(toks, k - 1) + Len(toks[k])

\* The places, counted in characters that are not spaces, where toks has a
\* space between two tokens.
Cuts(toks) == {CutAt(toks, k) : k \in 1..(Len(toks) - 1)}

\* The space after token k of in is still there in out.
SpaceKept(in, out, k) == CutAt(in, k) \in Cuts(out)

\* C19: step 3 removes a space only between two tokens that are one letter
\* long each: after one normalization, the space between two neighbouring
\* tokens of the input of which one has two or more characters is kept.
C19_OnlySingleLetters ==
    nm_calls = 1 =>
        \A k \in 1..(Len(Tokens(norm_filter(nm_raw), 1, <<>>, <<>>)) - 1) :
            (\/ Len(Tokens(norm_filter(nm_raw), 1, <<>>, <<>>)[k]) > 1
             \/ Len(Tokens(norm_filter(nm_raw), 1, <<>>, <<>>)[k + 1]) > 1)
                => SpaceKept(Tokens(norm_filter(nm_raw), 1, <<>>, <<>>),
                             Tokens(nm_s, 1, <<>>, <<>>), k)

\* Hop distance from the set S (k hops from the start) to d over edges
\* outside B, -1 if d cannot be reached that way.
RECURSIVE HopsAvoiding(_, _, _, _)
HopsAvoiding(S, k, d, B) ==
    IF d \in S THEN k
    ELSE IF {v \in Ids : \E u \in S : EdgeOk(u, v, B)} \subseteq S THEN -1
    ELSE HopsAvoiding(S \cup {v \in Ids : \E u \in S : EdgeOk(u, v, B)}, k + 1, d, B)

\* C20: every alternate starts and ends where the primary route does, does
\* not traverse the edge that was blocked for it in either direction, has
\* the minimum number of hops among the routes between the endpoints that
\* avoid that one edge, and is not shorter than the primary route.
C20_AlternatesShortest ==
    status = "ok" =>
        \A a \in 1..Len(alternates) :
            /\ alternates[a].path[1] = path[1]
            /\ alternates[a].path[Len(alternates[a].path)] = path[Len(path)]
            /\ \A i \in 1..(Len(alternates[a].path) - 1) :
                  /\ <<alternates[a].path[i], alternates[a].path[i + 1]>> \in adj
                  /\ <<alternates[a].path[i], alternates[a].path[i + 1]>>
                        \notin EdgePairs(path, alternates[a].edge)
            /\ Len(alternates[a].path) - 1
                  = HopsAvoiding({path[1]}, 0, path[Len(path)],
                                 EdgePairs(path, alternates[a].edge))
            /\ Len(alternates[a].path) >= Len(path)

\* An alternate found with a later edge than the first blocked is longer
\* than the primary route, and a shorter detour exists around the first edge.
C20_Witness ==
    /\ status = "ok"
    /\ \E a \in 1..Len(alternates) :
          /\ alternates[a].edge >= 1
          /\ Len(alternates[a].path) > Len(path)
          /\ Traverses(alternates[a].path, path[1], path[2])

\* The network of a complete build of the line arrays.
CompleteNet == build_network(ZeroNet, lineDefs)

\* Hop distance in the graph a_ from the set S (k hops from the start) to
\* d, -1 if d cannot be reached.
RECURSIVE HopsIn(_, _, _, _)
HopsIn(a_, S, k, d) ==
    IF d \in S THEN k
    ELSE IF {e[2] : e \in {e \in a_ : e[1] \in S}} \subseteq S THEN -1
    ELSE HopsIn(a_, S \cup {e[2] : e \in {e \in a_ : e[1] \in S}}, k + 1, d)

\* C21: a rebuild is an atomic swap for a reader that overlaps it: the
\* reader never finds the station table empty, and with both stations
\* found it reports a route exactly when the complete network has one, a
\* route over edges of the complete network with its minimum number of hops.
C21_AtomicSwap ==
    status # "none" =>
        /\ status # "not_loaded"
        /\ status \in {"ok", "no_route"} =>
              /\ (status = "ok") <=> (HopsIn(CompleteNet.adj, {src}, 0, dest) # -1)
              /\ status = "ok" =>
                    /\ \A i \in 1..(Len(path) - 1) :
                          <<path[i], path[i + 1]>> \in CompleteNet.adj
                    /\ Len(path) - 1 = HopsIn(CompleteNet.adj, {src}, 0, dest)

\* C22: two stations joined by an edge share a line tag; the label of a
\* pair of stations is "unknown" exactly when they have no line name in
\* common, so no edge of a returned route or of an alternate is labelled
\* "unknown".
C22_EdgesShareLine ==
    /\ \A a \in Ids : \A b \in Ids :
          /\ connected(a, b) => LinesOf(a) \cap LinesOf(b) # {}
          /\ (build_edge_lines(stations, <<a, b>>)[1] = unknown)
                <=> (LinesOf(a) \cap LinesOf(b) = {})
    /\ status = "ok" =>
          /\ \A e \in 1..Len(edgeLines) : edgeLines[e] # unknown
          /\ \A k \in 1..Len(alternates) :
                \A e \in 1..(Len(alternates[k].path) - 1) :
                    build_edge_lines(stations, alternates[k].path)[e] # unknown

\* The identity registered under the key of name, -1 if there is none.
IdOf(name) == find_by_key(stations, stationCount, normalize_inplace(name), 0)

\* The stations of the finished build that carry more than one line tag.
Interchanges == {i \in Ids : Len(StationAt(stations, i).lines) > 1}

\* C23: in the network of build_network, the purple entry "m.g. road"
\* (purple[18]) and the pink entry "mg road" (pink[11]) are one station
\* tagged purple then pink, "majestic" (purple[14]) is one station tagged
\* purple then green, "jayadeva hospital" (green[26]) is one station tagged
\* green then pink, and no other station has more than one line tag.
C23_SpellingsMerged ==
    linesAdded = Len(lineDefs) =>
        /\ purple[18] # pink[11]
        /\ IdOf(purple[18]) = IdOf(pink[11])
        /\ IdOf(purple[14]) = IdOf(green[17])
        /\ IdOf(green[26]) = IdOf(pink[5])
        /\ StationAt(stations, IdOf(purple[18])).lines
              = <<lineDefs[1].name, lineDefs[3].name>>
        /\ StationAt(stations, IdOf(purple[14])).lines
              = <<lineDefs[1].name, lineDefs[2].name>>
        /\ StationAt(stations, IdOf(green[26])).lines
              = <<lineDefs[2].name, lineDefs[3].name>>
        /\ Interchanges = {IdOf(purple[18]), IdOf(purple[14]), IdOf(green[26])}
        /\ Cardinality(Interchanges) = 3
        /\ stationCount = Len(purple) + Len(green) + Len(pink) - 3

\* The network was built a second time, over the entries the first build
\* left in the table.
C23_Witness ==
    /\ linesAdded = Len(lineDefs)
    /\ include_planned = 0
    /\ Len(StationAt(stations, IdOf(pink[11])).lines) = 2

\* p is a path of the graph: its stations are registered and consecutive
\* ones are joined by an edge.
IsPath(p) ==
    /\ \A i \in 1..Len(p) : p[i] \in Ids
    /\ \A i \in 1..(Len(p) - 1) : connected(p[i], p[i + 1])

\* C24: no route is stored before a query has succeeded, and export is
\* refused exactly while none is stored; a successful "Find route" stores
\* its path, which is not empty; every other step, the queries without a
\* route included, leaves the stored route as it is; and the stored route is
\* a path of the graph in every state, also after a toggle has rebuilt it.
C24_LastRoute ==
    /\ NoLastRoute
    /\ [](/\ IsPath(last_path)
          /\ status = "no_last_route" => last_path = <<>>
          /\ status = "exported" => last_path # <<>>
          /\ status = "ok" => (last_path = path /\ last_path # <<>>))
    /\ [][ /\ (status' # "ok" \/ status = "ok") => last_path' = last_path
           /\ (status = "none" /\ status' = "ok") => last_path' = path' ]_vars

\* The stored route was exported after the network had been rebuilt with
\* planned stations left out.
C24_Witness ==
    /\ status = "exported"
    /\ include_planned = 0
    /\ Len(last_path) >= 2
    /\ Len(edgeLines) = Len(last_path) - 1

\* The queue of the finished search r was written at most stationCount
\* times, each time with another station.
QueueBounded(r) ==
    /\ Len(r.q) <= stationCount
    /\ \A i \in 1..Len(r.q) : r.q[i] \in Ids
    /\ \A i \in 1..Len(r.q) : \A j \in 1..Len(r.q) : r.q[i] = r.q[j] => i = j

\* p is the chain of predecessors from d: it ends in s, whose predecessor
\* is the -1 marker, after at most stationCount stations, none twice.
ChainEnds(parent, p, s, d) ==
    /\ Len(p) >= 1 /\ Len(p) <= stationCount
    /\ p[1] = d /\ p[Len(p)] = s
    /\ parent[s] = -1
    /\ \A i \in 1..(Len(p) - 1) : p[i + 1] = parent[p[i]]
    /\ \A i \in 1..Len(p) : \A j \in 1..Len(p) : p[i] = p[j] => i = j

SearchBounded(r, s, d) ==
    /\ QueueBounded(r)
    /\ r.found = 1 => ChainEnds(r.parent, follow_parents(r.parent, d, <<>>), s, d)

\* C25: every search of a route query ends within the fixed bounds: the
\* queue holds each station at most once, so its write index stays within
\* stationCount, and the predecessors lead from dest to the -1 marker at src
\* in at most stationCount steps without a repeat; this holds for the search
\* of the route and for the search with each of its edges blocked, and
\* find_alternates has left its loop once it has blocked the last edge.
C25_SearchesBounded ==
    /\ status \in {"ok", "no_route"} =>
          SearchBounded(bfs_with_blocked_edges(Net(stations, stationCount, adj), src, dest,
                                               parent_init(Net(stations, stationCount, adj)),
                                               blocked_a, blocked_b),
                        src, dest)
    /\ status = "ok" =>
          /\ \A e \in 0..(Len(path) - 2) :
                SearchBounded(alt_search(Net(stations, stationCount, adj), path, e), src, dest)
          /\ find_alternates_loop(Net(stations, stationCount, adj), path,
                                  Len(path) - 1, alternates) = alternates
          /\ Len(alternates) <= Len(path) - 1
          /\ \A a \in 1..Len(alternates) : alternates[a].edge \in 0..(Len(path) - 2)

\* A route through every station of the graph: the queue was filled to
\* stationCount entries and the chain of predecessors has stationCount
\* stations.
C25_Witness ==
    /\ status = "ok"
    /\ stationCount >= 3
    /\ Len(path) = stationCount
    /\ blocked_a = <<>>

====
